---- MODULE Spec2Model ----
(***************************************************************************)
(* State-machine model of public/service/kodi-bridge.js: the KodiWsClient  *)
(* JSON-RPC client (request correlation, deadline timers, socket close)    *)
(* and the playAsync session that drives it; the HTTP variant of playAsync  *)
(* with its currentJob slot; the client's heartbeat and watchdog.          *)
(*                                                                         *)
(* JavaScript runs one macrotask (socket event, timer, Luna callback) at a *)
(* time and drains the promise continuations it queued before the next     *)
(* one.  Each action below is therefore one macrotask together with the    *)
(* continuations it wakes, up to their next await on a timer, a socket or  *)
(* a Luna call.                                                            *)
(***************************************************************************)
EXTENDS Integers, Sequences, FiniteSets, TLC

VARIABLES
    cli,        \* a KodiWsClient driven directly by a caller (SpecRpc)
    sess,       \* the playAsync invocations (WebSocket variant), by session
    http        \* the HTTP variant: currentJob and its playAsync invocations

vars == <<cli, sess, http>>

(***************************************************************************)
(* Bounds of the model.                                                    *)
(***************************************************************************)
MaxReq == 4         \* requests one directly driven client sends

(***************************************************************************)
(* Small helpers on maps with a changing key set (a JS Map).               *)
(***************************************************************************)
MapPut(m, k, v) == [i \in DOMAIN m \cup {k} |-> IF i = k THEN v ELSE m[i]]

MapDel(m, k) == [i \in DOMAIN m \ {k} |-> m[i]]

EmptyMap == [i \in {} |-> 0]

(***************************************************************************)
(* KodiWsClient.                                                           *)
(*   ws            this.ws is set (not null)                               *)
(*   sock          the WebSocket object: "none" (not created),             *)
(*                 "connecting", "open", "closing" (close() was called,    *)
(*                 the close event is still to come), "closed" (its close  *)
(*                 event was emitted), "failed" (never opened)             *)
(*   connDone, connTimer   connect()'s done flag and its timeout           *)
(*   pending       this.pending: id -> who awaits the request              *)
(*   timers        ids whose deadline timer (setTimeout) is armed          *)
(*   calls         per id, the resolve/reject calls made on its promise    *)
(*                 (history, to count settlements)                         *)
(***************************************************************************)
NewClient ==
    [ws |-> FALSE, sock |-> "none", connDone |-> FALSE, connTimer |-> FALSE,
     nextId |-> 1, pending |-> EmptyMap, timers |-> {},
     pingInterval |-> FALSE, pingWatchdog |-> FALSE,
     calls |-> <<>>]

\* pending.resolve(...) / pending.reject(...) / reject(...) of request `id`
settle(c, id, how) == [c EXCEPT !.calls[id] = Append(@, how)]

\* _startPing: both intervals are armed
startPing(c) == [c EXCEPT !.pingInterval = TRUE, !.pingWatchdog = TRUE]

\* _stopPing: both intervals are cleared
stopPing(c) == [c EXCEPT !.pingInterval = FALSE, !.pingWatchdog = FALSE]

\* connect(timeoutMs), up to the first event: the socket is created and the
\* connect timeout armed
connectStart(c) ==
    [c EXCEPT !.sock = "connecting", !.connDone = FALSE, !.connTimer = TRUE]

\* ws.on("open") inside connect
connectOpen(c) ==
    IF c.connDone THEN c
    ELSE startPing([c EXCEPT !.connDone = TRUE, !.connTimer = FALSE,
                             !.ws = TRUE, !.sock = "open"])

\* ws.on("error") inside connect
connectError(c) ==
    IF c.connDone THEN [c EXCEPT !.sock = "failed"]
    ELSE [c EXCEPT !.connDone = TRUE, !.connTimer = FALSE, !.sock = "failed"]

\* the connect timeout's callback
connectTimeout(c) ==
    IF c.connDone THEN [c EXCEPT !.connTimer = FALSE]
    ELSE [c EXCEPT !.connDone = TRUE, !.connTimer = FALSE, !.sock = "failed"]

\* request(): the guard that rejects at once with "Kodi WS not connected"
notConnected(c) == ~c.ws \/ c.sock # "open"

\* request() on a connected client: allocate the id, arm the deadline, store the
\* entry, send; a throwing send clears the deadline, deletes the entry and rejects
request(c, who, sendOk) ==
    LET id == c.nextId
        c1 == [c EXCEPT !.nextId = id + 1,
                        !.timers = @ \cup {id},
                        !.pending = MapPut(@, id, who),
                        !.calls = Append(@, <<>>)]
    IN  IF sendOk THEN c1
        ELSE settle([c1 EXCEPT !.timers = @ \ {id},
                               !.pending = MapDel(@, id)], id, "reject")

\* ws.on("message") for a frame with an id: the matching entry, if any, is
\* deleted, its deadline cleared, and it is resolved or (msg.error) rejected
onResponseMutNoClearTimeout(c, id, isError) ==
    IF id \in DOMAIN c.pending
    THEN settle([c EXCEPT !.pending = MapDel(@, id)],
                id, IF isError THEN "reject" ELSE "resolve")
    ELSE c

onResponse(c, id, isError) ==
    IF id \in DOMAIN c.pending
    THEN settle([c EXCEPT !.pending = MapDel(@, id), !.timers = @ \ {id}],
                id, IF isError THEN "reject" ELSE "resolve")
    ELSE c

\* the deadline timer's callback: delete the entry, reject with "Kodi RPC timeout"
onTimeout(c, id) ==
    settle([c EXCEPT !.timers = @ \ {id}, !.pending = MapDel(@, id)],
           id, "reject")

\* rejects every entry of `ids` (the close handler's loop body)
RECURSIVE rejectAll(_, _)
rejectAll(c, ids) ==
    IF ids = {} THEN c
    ELSE LET id == CHOOSE i \in ids : \A j \in ids : i <= j
         IN  rejectAll(settle([c EXCEPT !.timers = @ \ {id}], id, "reject"),
                       ids \ {id})

\* ws.on("close"), without the onClose callback: stop the ping timers, clear
\* every pending deadline and reject the entry, clear the map
onWsClose(c) ==
    LET c1 == rejectAll(stopPing(c), DOMAIN c.pending)
    IN  [c1 EXCEPT !.pending = EmptyMap, !.sock = "closed"]

\* close(): stop the ping timers; if this.ws is set, ws.close() and this.ws = null
close(c) ==
    LET c1 == stopPing(c)
    IN  IF c1.ws
        THEN [c1 EXCEPT !.ws = FALSE,
                        !.sock = IF @ = "open" THEN "closing" ELSE @]
        ELSE c1

(***************************************************************************)
(* JavaScript values of the request payload and of notification params.    *)
(***************************************************************************)
Undef == [t |-> "undefined"]

Null == [t |-> "null"]

JStr(x) == [t |-> "string", s |-> x]

JNum(x) == [t |-> "number", n |-> x]

JBool(x) == [t |-> "boolean", b |-> x]

\* JavaScript truthiness: !!v
Truthy(v) ==
    CASE v.t \in {"undefined", "null"} -> FALSE
      [] v.t = "string" -> v.s # ""
      [] v.t = "number" -> v.n # 0
      [] v.t = "boolean" -> v.b

\* pick(v, fallback)
pick(v, fallback) == IF v.t \in {"undefined", "null"} THEN fallback ELSE v

Max(a, b) == IF a >= b THEN a ELSE b

\* timeoutMs = Math.max(1000, pick(p.timeoutMs, 20000))
timeoutMsOf(p) == Max(1000, pick(p.timeoutMs, JNum(20000)).n)

\* position = Number.isFinite(p.position) ? p.position : -1
positionOf(p) == IF p.position.t = "number" THEN p.position.n ELSE -1

\* the url check of step 2: !url || typeof url !== "string"
badUrl(p) == ~Truthy(p.url) \/ p.url.t # "string"

(***************************************************************************)
(* The HTTP variant: currentJob (latest wins) and one record per playAsync *)
(* call, numbered in the order the calls arrive.                           *)
(*   currentJob   the job the slot refers to, 0 for null                   *)
(*   n            the calls that arrived so far                            *)
(*   lastOpen     history: the url of the last Player.Open that was sent   *)
(* A job:                                                                  *)
(*   pc        where its handler stands: "idle" (not called yet),          *)
(*             "refused" (returned after the url check), "create"          *)
(*             (awaiting createKeepAliveActivity), "open1", "ping",        *)
(*             "pingSleep", "openSleep", "open" (the awaits of playWorker  *)
(*             and waitKodiReady), "complete" (awaiting                    *)
(*             completeKeepAliveActivity), "done"                          *)
(*   keepAlive the activity held by the handler                            *)
(*   out       the responses sent to the caller (message.respond)          *)
(*   sent      history: the HTTP requests of this job, each with the value *)
(*             of job.cancelled when it was sent                           *)
(*   created, completed   history: calls of activityManager.create and     *)
(*             activityManager.complete                                    *)
(***************************************************************************)
MaxHttpLoop == 1    \* loop iterations of one phase of a job before its time is up

\* the calls: a job and the job that supersedes it
HttpJobs == {1, 2}

NewJob ==
    [pc |-> "idle", cancelled |-> FALSE, url |-> Undef, subscribed |-> FALSE,
     keepAlive |-> FALSE, attemptsOpen |-> 0, attemptsPing |-> 0,
     out |-> <<>>, sent |-> <<>>, created |-> 0, completed |-> 0]

NewHttp ==
    [currentJob |-> 0, n |-> 0, jobs |-> [j \in HttpJobs |-> NewJob],
     lastOpen |-> Undef]

\* the responses of the HTTP variant
Refused == [returnValue |-> FALSE, stage |-> "", result |-> "", url |-> Undef]

Started(url) == [returnValue |-> TRUE, stage |-> "STARTED", result |-> "", url |-> url]

Final(returnValue, result, url) ==
    [returnValue |-> returnValue, stage |-> "FINAL", result |-> result, url |-> url]

\* message.respond(obj) of job j
httpRespond(h, j, obj) == [h EXCEPT !.jobs[j].out = Append(@, obj)]

\* the url check: !url || typeof url !== "string"
httpBadUrl(p) == ~Truthy(p.url) \/ p.url.t # "string"

\* playAsync up to its first await: the url check, the previous job is marked
\* cancelled, the new job installed, STARTED sent, createKeepAliveActivity called
httpPlayAsync(h, j, p) ==
    IF httpBadUrl(p)
    THEN [httpRespond(h, j, Refused) EXCEPT !.jobs[j].pc = "refused", !.n = j]
    ELSE LET h1 == IF h.currentJob # 0
                   THEN [h EXCEPT !.jobs[h.currentJob].cancelled = TRUE]
                   ELSE h
             h2 == [h1 EXCEPT !.currentJob = j, !.n = j,
                              !.jobs[j].url = p.url,
                              !.jobs[j].subscribed = Truthy(p.subscribe)]
         IN  [httpRespond(h2, j, Started(p.url))
                EXCEPT !.jobs[j].pc = "create", !.jobs[j].created = @ + 1]

\* the finally block once completeKeepAliveActivity settled
clearIfCurrentMutAlways(h, j) ==
    [h EXCEPT !.currentJob = 0, !.jobs[j].pc = "done"]

clearIfCurrent(h, j) ==
    [h EXCEPT !.currentJob = IF @ = j THEN 0 ELSE @, !.jobs[j].pc = "done"]

\* the finally block up to its await: completeKeepAliveActivity(keepAlive)
\* resolves at once without an activity, otherwise calls activityManager.complete
finallyBlock(h, j) ==
    IF h.jobs[j].keepAlive
    THEN [h EXCEPT !.jobs[j].pc = "complete", !.jobs[j].completed = @ + 1]
    ELSE clearIfCurrent(h, j)

\* playAsync after playWorker returned r: the FINAL response, then finally
finishMutNoCancelledReturn(h, j, ok) ==
    LET job == h.jobs[j]
        h1 == IF job.cancelled /\ job.subscribed
              THEN httpRespond(h, j, Final(FALSE, "CANCELLED", job.url))
              ELSE h
        h2 == IF job.subscribed
              THEN httpRespond(h1, j, Final(ok, IF ok THEN "OK" ELSE "TIMEOUT", job.url))
              ELSE h1
    IN  finallyBlock(h2, j)

finish(h, j, ok) ==
    LET job == h.jobs[j]
        h1 == IF ~job.subscribed THEN h
              ELSE IF job.cancelled
              THEN httpRespond(h, j, Final(FALSE, "CANCELLED", job.url))
              ELSE httpRespond(h, j, Final(ok, IF ok THEN "OK" ELSE "TIMEOUT", job.url))
    IN  finallyBlock(h1, j)

\* kodiPlayerOpenOnce(url) is called: attemptsOpen += 1 and the request is sent
kodiPlayerOpenOnce(h, j, pc) ==
    [h EXCEPT !.jobs[j].pc = pc,
              !.jobs[j].attemptsOpen = @ + 1,
              !.jobs[j].sent = Append(@, [method |-> "Player.Open",
                                          url |-> h.jobs[j].url,
                                          cancelled |-> h.jobs[j].cancelled]),
              !.lastOpen = h.jobs[j].url]

\* kodiPingOnce() is called inside waitKodiReady: attempts += 1
kodiPingOnce(h, j) ==
    [h EXCEPT !.jobs[j].pc = "ping",
              !.jobs[j].attemptsPing = @ + 1,
              !.jobs[j].sent = Append(@, [method |-> "JSONRPC.Ping",
                                          url |-> Undef,
                                          cancelled |-> h.jobs[j].cancelled])]

\* playWorker step 3, the loop test: while (!job.cancelled && time is left);
\* leaving the loop returns ok: false
openLoopMutNoCancelTest(h, j, expired) ==
    IF ~expired
    THEN [h EXCEPT !.jobs[j].pc = "openSleep"]
    ELSE finish(h, j, FALSE)

openLoop(h, j, expired) ==
    IF ~h.jobs[j].cancelled /\ ~expired
    THEN [h EXCEPT !.jobs[j].pc = "openSleep"]
    ELSE finish(h, j, FALSE)

\* waitKodiReady, the loop test; leaving the loop returns to playWorker step 3
waitKodiReady(h, j, expiredPing, expiredOpen) ==
    IF ~h.jobs[j].cancelled /\ ~expiredPing
    THEN kodiPingOnce(h, j)
    ELSE openLoop(h, j, expiredOpen)

\* playWorker from its start: step 1 sends Player.Open unless the job is
\* cancelled, and a cancelled job falls through steps 2 and 3
playWorker(h, j) ==
    IF ~h.jobs[j].cancelled THEN kodiPlayerOpenOnce(h, j, "open1")
    ELSE finish(h, j, FALSE)

\* playAsync after createKeepAliveActivity settled; its rejection is caught:
\* FINAL ERROR for a subscriber, then finally
afterCreate(h, j, created) ==
    IF created THEN playWorker([h EXCEPT !.jobs[j].keepAlive = TRUE], j)
    ELSE LET job == h.jobs[j]
         IN  finallyBlock(IF job.subscribed
                          THEN httpRespond(h, j, Final(FALSE, "ERROR", job.url))
                          ELSE h, j)

\* playWorker after the Player.Open of step 1 settled
afterOpen1(h, j, isOk, expiredPing, expiredOpen) ==
    IF isOk THEN finish(h, j, TRUE)
    ELSE IF ~h.jobs[j].cancelled THEN waitKodiReady(h, j, expiredPing, expiredOpen)
    ELSE openLoop(h, j, expiredOpen)

\* waitKodiReady after its ping settled: pong returns ready, anything else sleeps
afterPing(h, j, pong, expiredOpen) ==
    IF pong THEN openLoop(h, j, expiredOpen)
    ELSE [h EXCEPT !.jobs[j].pc = "pingSleep"]

\* playWorker step 3 after sleep(intervalMs): Player.Open is sent
afterOpenSleep(h, j) == kodiPlayerOpenOnce(h, j, "open")

\* playWorker step 3 after its Player.Open settled
afterOpen(h, j, isOk, expired) ==
    IF isOk THEN finish(h, j, TRUE) ELSE openLoop(h, j, expired)

(***************************************************************************)
(* One playAsync invocation (WebSocket variant).                           *)
(*   pc        where the async handler stands: "idle" (not called yet),    *)
(*             "launch", "sleep150", "connect", "open", "sleep200",        *)
(*             "active", "sleepRetry", "seek" (the await it is suspended   *)
(*             on), "done" (nothing left but its return)                   *)
(*   failPc    fail(): "none", "focus" (awaiting bringFocusBackToLampa),   *)
(*             "done"                                                      *)
(*   stopPc    the Player.OnStop branch of onNotification: "none",         *)
(*             "final" (awaiting getFinalPropsSafe's request), "focus",    *)
(*             "done"                                                      *)
(*   out       the responses sent to the caller (msg.respond), in order    *)
(*   did       the calls made to the outside, in order: app launches,      *)
(*             connection attempts, JSON-RPC requests sent                 *)
(*   stopData  history: params.data.end of the Player.OnStop that was      *)
(*             handled                                                     *)
(*   seen      history: the sessions that were active when this call       *)
(*             arrived, each with the number of responses it had sent      *)
(*   focus     history: how the launch of bringFocusBackToLampa ended:     *)
(*             "none" (not yet), "ok", "failed"                            *)
(***************************************************************************)
NewSession ==
    [pc |-> "idle", sub |-> FALSE,
     payload |-> [url |-> Undef, position |-> Undef, timeoutMs |-> Undef],
     endedOrStopped |-> FALSE, playerId |-> Null, pollTimer |-> FALSE,
     i |-> 0, failPc |-> "none", failCode |-> "", stopPc |-> "none",
     stopEnd |-> FALSE, stopData |-> Undef, kodi |-> NewClient, onNotification |-> FALSE,
     polls |-> 0, notifs |-> 0, out |-> <<>>, did |-> <<>>,
     seen |-> EmptyMap, focus |-> "none"]

\* entries of out and of did
Event(type) == [k |-> "respond", returnValue |-> TRUE, type |-> type]

ErrorEvent(code) == [k |-> "respond", returnValue |-> TRUE, type |-> "error", code |-> code]

PlayingEvent(pos) == [k |-> "respond", returnValue |-> TRUE, type |-> "playing", position |-> pos]

StoppedEvent(end) == [k |-> "respond", returnValue |-> TRUE, type |-> "stopped", end |-> end]

Launch(app) == [k |-> "launch", app |-> app]

Rpc(method) == [k |-> "rpc", method |-> method]

\* respond(obj) / msg.respond(obj)
respond(st, obj) == [st EXCEPT !.out = Append(@, obj)]

\* cleanup(): clear the poll timer
cleanup(st) == [st EXCEPT !.pollTimer = FALSE]

\* fail(message, code) up to its await of bringFocusBackToLampa
failMutNoGuard(st, code) ==
    [cleanup([st EXCEPT !.endedOrStopped = TRUE])
        EXCEPT !.failPc = "focus", !.failCode = code,
               !.did = Append(@, Launch("lampa"))]

fail(st, code) ==
    IF st.endedOrStopped THEN st
    ELSE [cleanup([st EXCEPT !.endedOrStopped = TRUE])
            EXCEPT !.failPc = "focus", !.failCode = code,
                   !.did = Append(@, Launch("lampa"))]

\* the catch of step 5: kodi.close(); await fail(..., "KODI_PLAY_FAILED"); return
catchPlay(st) ==
    [fail([st EXCEPT !.kodi = close(@)], "KODI_PLAY_FAILED") EXCEPT !.pc = "done"]

\* the catch of the poll callback: kodi.close(); await fail(..., "KODI_TRACK_FAILED")
catchPoll(st) == fail([st EXCEPT !.kodi = close(@)], "KODI_TRACK_FAILED")

\* kodi.request(...) called by the session.  ws.send of a string on a socket
\* whose readyState is OPEN does not throw, so the request stays pending unless
\* the client is not connected, and then the promise is rejected before the
\* handler gets control back
requestPends(st) == ~notConnected(st.kodi)

sendRequest(st, who, entry) ==
    IF notConnected(st.kodi) THEN st
    ELSE [st EXCEPT !.kodi = request(@, who, TRUE), !.did = Append(@, entry)]

\* end of step 5 and step 6: respond playing, arm the poll timer, return true
startPlaying(st) ==
    [respond(st, PlayingEvent(Max(0, positionOf(st.payload))))
        EXCEPT !.pollTimer = TRUE, !.pc = "done"]

\* step 5 once playerId is known: Player.Seek if position >= 0
afterDiscoveryMutStrict(st) ==
    LET position == positionOf(st.payload) IN
    IF position > 0
    THEN LET st1 == sendRequest(st, "seek",
                        [k |-> "rpc", method |-> "Player.Seek",
                         playerid |-> st.playerId, value |-> position])
         IN  IF requestPends(st) THEN [st1 EXCEPT !.pc = "seek"]
             ELSE catchPlay(st1)
    ELSE startPlaying(st)

afterDiscovery(st) ==
    LET position == positionOf(st.payload) IN
    IF position >= 0
    THEN LET st1 == sendRequest(st, "seek",
                        [k |-> "rpc", method |-> "Player.Seek",
                         playerid |-> st.playerId, value |-> position])
         IN  IF requestPends(st) THEN [st1 EXCEPT !.pc = "seek"]
             ELSE catchPlay(st1)
    ELSE startPlaying(st)

\* one iteration of the active-player loop: Player.GetActivePlayers
MaxActiveAttempts == 12

askActive(st) ==
    LET st1 == sendRequest(st, "active", Rpc("Player.GetActivePlayers"))
    IN  IF requestPends(st) THEN [st1 EXCEPT !.pc = "active"]
        ELSE catchPlay(st1)

\* the Player.OnStop branch after bringFocusBackToLampa settled: the stopped event
stopRespond(st) == [respond(st, StoppedEvent(st.stopEnd)) EXCEPT !.stopPc = "done"]

\* the Player.OnStop branch after getFinalPropsSafe: kodi.close(), then
\* bringFocusBackToLampa
stopAfterFinalMutNoFocus(st) ==
    [stopRespond([st EXCEPT !.kodi = close(@)]) EXCEPT !.focus = "ok"]

stopAfterFinal(st) ==
    [st EXCEPT !.kodi = close(@), !.stopPc = "focus",
               !.did = Append(@, Launch("lampa"))]

\* what the awaiting code does when its request is rejected
resumeRejected(st, who) ==
    CASE who \in {"open", "active", "seek"} -> catchPlay(st)
      [] who = "poll" -> catchPoll(st)
      [] who = "final" -> stopAfterFinal(st)

\* what the awaiting code does when its request is resolved with `result`
resumeResolved(st, who, result) ==
    CASE who = "open" -> [st EXCEPT !.pc = "sleep200"]
      [] who = "active" ->
            IF Len(result) > 0
            THEN afterDiscovery([st EXCEPT !.playerId = JNum(result[1])])
            ELSE [st EXCEPT !.pc = "sleepRetry"]
      [] who = "seek" -> startPlaying(st)
      [] who = "poll" -> respond(st, Event("progress"))
      [] who = "final" -> stopAfterFinal(st)

RECURSIVE resumeAllRejected(_, _, _)
resumeAllRejected(st, pend, ids) ==
    IF ids = {} THEN st
    ELSE LET id == CHOOSE a \in ids : \A b \in ids : a <= b
         IN  resumeAllRejected(resumeRejected(st, pend[id]), pend, ids \ {id})

(***************************************************************************)
(* The steps of a session: one per macrotask.                              *)
(***************************************************************************)
Sessions == {"A", "B"}

MaxPolls == 2       \* poll-timer ticks of one session that send a query
MaxNotifs == 1      \* notifications other than Player.OnStop one session gets

\* payloads a caller sends
Payloads ==
    { [url |-> JStr("file:///movie.mkv"), position |-> JNum(120), timeoutMs |-> Undef],
      [url |-> JStr("file:///movie.mkv"), position |-> Undef, timeoutMs |-> JNum(8000)],
      [url |-> JStr("file:///movie.mkv"), position |-> JNum(0), timeoutMs |-> JNum(500)],
      [url |-> Undef, position |-> JNum(120), timeoutMs |-> Undef],
      [url |-> JStr(""), position |-> Undef, timeoutMs |-> Undef],
      [url |-> JNum(42), position |-> Undef, timeoutMs |-> Undef] }

\* playerids Player.GetActivePlayers reports
PlayerIds == {0, 1}

\* values of params.data.end in a Player.OnStop notification
EndValues == {Undef, JBool(TRUE), JBool(FALSE)}

Set(s, st) == sess' = [sess EXCEPT ![s] = st]

\* service.register("playAsync", ...): the call arrives; without a subscription
\* it is refused, otherwise step 1 calls launchApp(kodiAppId)
playAsyncCallMutNoReturn(st, sub, p) ==
    LET st1 == IF sub THEN st ELSE respond(st, [k |-> "respond", returnValue |-> FALSE])
    IN  [st1 EXCEPT !.pc = "launch", !.sub = sub, !.payload = p,
                    !.did = Append(@, Launch("kodi"))]

playAsyncCallMutValidateFirst(st, sub, p) ==
    IF ~sub
    THEN [respond(st, [k |-> "respond", returnValue |-> FALSE])
            EXCEPT !.pc = "done", !.sub = sub, !.payload = p]
    ELSE IF badUrl(p)
    THEN [fail([st EXCEPT !.sub = sub, !.payload = p], "BAD_ARGS") EXCEPT !.pc = "done"]
    ELSE [st EXCEPT !.pc = "launch", !.sub = sub, !.payload = p,
                    !.did = Append(@, Launch("kodi"))]

playAsyncCall(st, sub, p) ==
    IF ~sub
    THEN [respond(st, [k |-> "respond", returnValue |-> FALSE])
            EXCEPT !.pc = "done", !.sub = sub, !.payload = p]
    ELSE [st EXCEPT !.pc = "launch", !.sub = sub, !.payload = p,
                    !.did = Append(@, Launch("kodi"))]

\* a session is active while it holds a connected client or an armed poll timer
Active(st) == (st.kodi.ws /\ st.kodi.sock = "open") \/ st.pollTimer

PlayAsync(s, sub, p) ==
    /\ sess[s].pc = "idle"
    /\ Set(s, [playAsyncCall(sess[s], sub, p) EXCEPT !.seen =
                 [t \in {u \in Sessions : Active(sess[u])} |-> Len(sess[t].out)]])
    /\ UNCHANGED <<cli, http>>

\* steps 1-2 after launchApp(kodiAppId) settled
afterLaunch(st, ok) ==
    IF ~ok THEN [fail(st, "KODI_LAUNCH_FAILED") EXCEPT !.pc = "done"]
    ELSE LET st1 == respond(st, Event("launched"))
         IN  IF badUrl(st1.payload)
             THEN [fail(st1, "BAD_ARGS") EXCEPT !.pc = "done"]
             ELSE [st1 EXCEPT !.pc = "sleep150"]

LaunchReturned(s, ok) ==
    /\ sess[s].pc = "launch"
    /\ Set(s, afterLaunch(sess[s], ok))
    /\ UNCHANGED <<cli, http>>

\* sleep(150) is over: new KodiWsClient, kodi.onClose set, step 3 kodi.connect(timeoutMs)
startConnect(st) ==
    [st EXCEPT !.kodi = connectStart(NewClient), !.pc = "connect",
               !.did = Append(@, [k |-> "connect", timeoutMs |-> timeoutMsOf(st.payload)])]

Sleep150Done(s) ==
    /\ sess[s].pc = "sleep150"
    /\ Set(s, startConnect(sess[s]))
    /\ UNCHANGED <<cli, http>>

\* step 4 and the start of step 5 after connect resolved: onNotification is set,
\* Player.Open is requested
afterConnect(st) ==
    LET st0 == [st EXCEPT !.onNotification = TRUE]
        st1 == sendRequest(st0, "open", Rpc("Player.Open"))
    IN  IF requestPends(st0) THEN [st1 EXCEPT !.pc = "open"]
        ELSE catchPlay(st1)

\* the socket's open event while connect is awaited
ConnectOpen(s) ==
    /\ sess[s].pc = "connect"
    /\ sess[s].kodi.sock = "connecting"
    /\ Set(s, afterConnect([sess[s] EXCEPT !.kodi = connectOpen(@)]))
    /\ UNCHANGED <<cli, http>>

\* the catch of step 3: kodi.close(); await fail(..., "KODI_WS_CONNECT_FAILED"); return
catchConnect(st) ==
    [fail([st EXCEPT !.kodi = close(@)], "KODI_WS_CONNECT_FAILED") EXCEPT !.pc = "done"]

\* the socket's error event while connect is awaited
ConnectError(s) ==
    /\ sess[s].pc = "connect"
    /\ sess[s].kodi.sock = "connecting"
    /\ Set(s, catchConnect([sess[s] EXCEPT !.kodi = connectError(@)]))
    /\ UNCHANGED <<cli, http>>

\* connect's timeout fires
ConnectTimeout(s) ==
    /\ sess[s].pc = "connect"
    /\ sess[s].kodi.connTimer
    /\ Set(s, catchConnect([sess[s] EXCEPT !.kodi = connectTimeout(@)]))
    /\ UNCHANGED <<cli, http>>

\* sleep(200) after Player.Open is over: the loop starts with i = 0
Sleep200Done(s) ==
    /\ sess[s].pc = "sleep200"
    /\ Set(s, askActive([sess[s] EXCEPT !.i = 0]))
    /\ UNCHANGED <<cli, http>>

\* sleep(150) at the end of a loop iteration is over: i++, then the loop test;
\* leaving the loop without a player id throws
nextAttempt(st) ==
    LET st1 == [st EXCEPT !.i = @ + 1]
    IN  IF st1.i < MaxActiveAttempts THEN askActive(st1)
        ELSE catchPlay(st1)

SleepRetryDone(s) ==
    /\ sess[s].pc = "sleepRetry"
    /\ Set(s, nextAttempt(sess[s]))
    /\ UNCHANGED <<cli, http>>

\* results a response to a request of `who` may carry
Results(who) ==
    IF who = "active" THEN {<<>>} \cup {<<p>> : p \in PlayerIds} ELSE {<<>>}

\* a response frame for a pending request arrives
SockResponse(s, id, isError, result) ==
    LET st == sess[s] IN
    /\ st.kodi.sock \in {"open", "closing"}
    /\ id \in DOMAIN st.kodi.pending
    /\ result \in Results(st.kodi.pending[id])
    /\ LET who == st.kodi.pending[id]
           st1 == [st EXCEPT !.kodi = onResponse(@, id, isError)]
       IN  Set(s, IF isError THEN resumeRejected(st1, who)
                  ELSE resumeResolved(st1, who, result))
    /\ UNCHANGED <<cli, http>>

\* the deadline timer of a request fires
SockTimeout(s, id) ==
    LET st == sess[s] IN
    /\ id \in st.kodi.timers
    /\ LET who == st.kodi.pending[id]
           st1 == [st EXCEPT !.kodi = onTimeout(@, id)]
       IN  Set(s, resumeRejected(st1, who))
    /\ UNCHANGED <<cli, http>>

\* kodi.onClose
onClose(st) == IF ~st.endedOrStopped THEN fail(st, "KODI_WS_CLOSED") ELSE st

\* the socket's close event: the client's handler, kodi.onClose, then the
\* continuations of the requests it rejected
wsClosedMutContinuationsFirst(st) ==
    LET pend == st.kodi.pending
        st1 == [st EXCEPT !.kodi = onWsClose(@)]
    IN  onClose(resumeAllRejected(st1, pend, DOMAIN pend))

wsClosed(st) ==
    LET pend == st.kodi.pending
        st1 == onClose([st EXCEPT !.kodi = onWsClose(@)])
    IN  resumeAllRejected(st1, pend, DOMAIN pend)

SockClose(s) ==
    /\ sess[s].kodi.sock \in {"open", "closing"}
    /\ Set(s, wsClosed(sess[s]))
    /\ UNCHANGED <<cli, http>>

\* getFinalPropsSafe, up to its await, inside the Player.OnStop branch
getFinalPropsSafe(st) ==
    IF st.playerId = Null THEN stopAfterFinal(st)
    ELSE LET st1 == sendRequest(st, "final",
                        [k |-> "rpc", method |-> "Player.GetProperties",
                         by |-> "final"])
         IN  IF requestPends(st) THEN [st1 EXCEPT !.stopPc = "final"]
             ELSE stopAfterFinal(st1)

\* kodi.onNotification(method, params)
onNotificationMutNoFlag(st, method, end) ==
    IF st.endedOrStopped THEN st
    ELSE CASE method = "Player.OnAVStart" -> respond(st, Event("avstart"))
           [] method = "Player.OnPause" -> respond(st, Event("paused"))
           [] method = "Player.OnResume" -> respond(st, Event("resumed"))
           [] method = "Player.OnSeek" -> respond(st, Event("seek"))
           [] method = "Player.OnStop" ->
                getFinalPropsSafe(
                    [cleanup(st) EXCEPT !.stopEnd = Truthy(end), !.stopData = end])
           [] OTHER -> st

onNotification(st, method, end) ==
    IF st.endedOrStopped THEN st
    ELSE CASE method = "Player.OnAVStart" -> respond(st, Event("avstart"))
           [] method = "Player.OnPause" -> respond(st, Event("paused"))
           [] method = "Player.OnResume" -> respond(st, Event("resumed"))
           [] method = "Player.OnSeek" -> respond(st, Event("seek"))
           [] method = "Player.OnStop" ->
                getFinalPropsSafe(
                    [cleanup([st EXCEPT !.endedOrStopped = TRUE])
                        EXCEPT !.stopEnd = Truthy(end), !.stopData = end])
           [] OTHER -> st

Methods == {"Player.OnAVStart", "Player.OnPause", "Player.OnResume", "Player.OnSeek"}

\* a notification frame other than Player.OnStop arrives
SockNotification(s, method) ==
    LET st == sess[s] IN
    /\ st.kodi.sock \in {"open", "closing"}
    /\ st.onNotification
    /\ st.notifs < MaxNotifs
    /\ Set(s, [onNotification(st, method, Undef) EXCEPT !.notifs = @ + 1])
    /\ UNCHANGED <<cli, http>>

\* a Player.OnStop notification arrives
SockStop(s, end) ==
    LET st == sess[s] IN
    /\ st.kodi.sock \in {"open", "closing"}
    /\ st.onNotification
    /\ Set(s, onNotification(st, "Player.OnStop", end))
    /\ UNCHANGED <<cli, http>>

\* the poll timer's callback
pollTick(st) ==
    IF st.endedOrStopped THEN st
    ELSE LET st1 == sendRequest(st, "poll",
                        [k |-> "rpc", method |-> "Player.GetProperties",
                         by |-> "poll"])
         IN  IF requestPends(st) THEN [st1 EXCEPT !.polls = @ + 1]
             ELSE catchPoll(st1)

PollTick(s) ==
    /\ sess[s].pollTimer
    /\ sess[s].polls < MaxPolls
    /\ Set(s, pollTick(sess[s]))
    /\ UNCHANGED <<cli, http>>

\* fail() after bringFocusBackToLampa settled (its failure is swallowed): the
\* error event
failRespond(st) == [respond(st, ErrorEvent(st.failCode)) EXCEPT !.failPc = "done"]

FailFocusReturned(s, ok) ==
    /\ sess[s].failPc = "focus"
    /\ Set(s, [failRespond(sess[s]) EXCEPT !.focus = IF ok THEN "ok" ELSE "failed"])
    /\ UNCHANGED <<cli, http>>

StopFocusReturned(s, ok) ==
    /\ sess[s].stopPc = "focus"
    /\ Set(s, [stopRespond(sess[s]) EXCEPT !.focus = IF ok THEN "ok" ELSE "failed"])
    /\ UNCHANGED <<cli, http>>

ReqIds == 1..(MaxActiveAttempts + MaxPolls + 3)

\* the steps of session s, but for notifications other than Player.OnStop
SessNext(s) ==
    \/ \E sub \in BOOLEAN, p \in Payloads : PlayAsync(s, sub, p)
    \/ \E ok \in BOOLEAN : LaunchReturned(s, ok)
    \/ Sleep150Done(s)
    \/ ConnectOpen(s)
    \/ ConnectError(s)
    \/ ConnectTimeout(s)
    \/ Sleep200Done(s)
    \/ SleepRetryDone(s)
    \/ \E id \in ReqIds, isError \in BOOLEAN :
          \E result \in {<<>>} \cup {<<p>> : p \in PlayerIds} :
              SockResponse(s, id, isError, result)
    \/ \E id \in ReqIds : SockTimeout(s, id)
    \/ SockClose(s)
    \/ \E end \in EndValues : SockStop(s, end)
    \/ PollTick(s)
    \/ \E ok \in BOOLEAN : FailFocusReturned(s, ok)
    \/ \E ok \in BOOLEAN : StopFocusReturned(s, ok)

Init ==
    /\ cli = NewClient
    /\ sess = [s \in Sessions |-> NewSession]
    /\ http = NewHttp

\* Spec: one playAsync session against an endpoint that sends responses,
\* Player.OnStop and close events.  The other notifications only add a response
\* while the session is not terminal; SpecNotif adds them.
Next == SessNext("A")

Spec == Init /\ [][Next]_vars

\* SpecFair: a request's deadline timer that stays armed fires, and the Luna
\* launch behind bringFocusBackToLampa calls back
SpecFair ==
    /\ Spec
    /\ WF_vars(\E id \in ReqIds : SockTimeout("A", id))
    /\ WF_vars(\E ok \in BOOLEAN : StopFocusReturned("A", ok))

\* SpecLive: SpecFair, and the Luna launch behind fail()'s
\* bringFocusBackToLampa calls back as well
SpecLive ==
    /\ SpecFair
    /\ WF_vars(\E ok \in BOOLEAN : FailFocusReturned("A", ok))

NextNotif ==
    \/ SessNext("A")
    \/ \E m \in Methods : SockNotification("A", m)

SpecNotif == Init /\ [][NextNotif]_vars

(***************************************************************************)
(* SpecTwo: two playAsync calls, each with a subscription and the same     *)
(* valid payload, against an endpoint that accepts the connection, answers *)
(* every request successfully and reports one active player.  Every        *)
(* behaviour of SpecTwo is a behaviour of the handler run twice.           *)
(***************************************************************************)
TwoPayload ==
    [url |-> JStr("file:///movie.mkv"), position |-> Undef, timeoutMs |-> Undef]

\* the successful response to pending request id
TwoResponse(s, id) ==
    /\ id \in DOMAIN sess[s].kodi.pending
    /\ SockResponse(s, id, FALSE,
                    IF sess[s].kodi.pending[id] = "active" THEN <<1>> ELSE <<>>)

TwoNext(s) ==
    \/ PlayAsync(s, TRUE, TwoPayload)
    \/ LaunchReturned(s, TRUE)
    \/ Sleep150Done(s)
    \/ ConnectOpen(s)
    \/ Sleep200Done(s)
    \/ \E id \in ReqIds : TwoResponse(s, id)
    \/ SockClose(s)
    \/ SockStop(s, JBool(TRUE))
    \/ PollTick(s)
    \/ \E ok \in BOOLEAN : FailFocusReturned(s, ok)
    \/ \E ok \in BOOLEAN : StopFocusReturned(s, ok)

\* the calls are named in the order they arrive: "A" first
NextTwo ==
    \/ TwoNext("A")
    \/ sess["A"].pc # "idle" /\ TwoNext("B")

SpecTwo == Init /\ [][NextTwo]_vars

(***************************************************************************)
(* SpecRpc: one KodiWsClient driven by a caller that only awaits results.  *)
(***************************************************************************)
InitRpc == Init

RpcIds == 1..MaxReq

\* connect() and its open event
RpcConnect ==
    /\ cli.sock = "none"
    /\ cli' = connectOpen(connectStart(cli))
    /\ UNCHANGED <<sess, http>>

\* request(method, params, timeoutMs)
RpcRequest(sendOk) ==
    /\ ~notConnected(cli)
    /\ cli.nextId <= MaxReq
    /\ cli' = request(cli, "caller", sendOk)
    /\ UNCHANGED <<sess, http>>

\* a response frame arrives for an id that was sent (also a late or repeated one)
RpcResponse(id, isError) ==
    /\ cli.sock \in {"open", "closing"}
    /\ id < cli.nextId
    /\ cli' = onResponse(cli, id, isError)
    /\ UNCHANGED <<sess, http>>

\* the deadline timer of request id fires
RpcTimeout(id) ==
    /\ id \in cli.timers
    /\ cli' = onTimeout(cli, id)
    /\ UNCHANGED <<sess, http>>

\* the socket's close event (the peer closed, or a local close() completed)
RpcWsClose ==
    /\ cli.sock \in {"open", "closing"}
    /\ cli' = onWsClose(cli)
    /\ UNCHANGED <<sess, http>>

\* the owner calls close()
RpcLocalClose ==
    /\ cli' = close(cli)
    /\ UNCHANGED <<sess, http>>

NextRpc ==
    \/ RpcConnect
    \/ \E sendOk \in BOOLEAN : RpcRequest(sendOk)
    \/ \E id \in RpcIds, isError \in BOOLEAN : RpcResponse(id, isError)
    \/ \E id \in RpcIds : RpcTimeout(id)
    \/ RpcWsClose
    \/ RpcLocalClose

SpecRpc == InitRpc /\ [][NextRpc]_vars

\* a deadline timer that stays armed fires
SpecRpcFair == SpecRpc /\ \A id \in RpcIds : WF_vars(RpcTimeout(id))

(***************************************************************************)
(* SpecHttp: the HTTP variant's playAsync, called once per job of HttpJobs. *)
(* Time is not modelled: a loop test may find its time up at any           *)
(* iteration, and finds it up after MaxHttpLoop attempts.                  *)
(***************************************************************************)
HttpUrls == {JStr("file:///a.mkv"), JStr("file:///b.mkv"), Undef, JNum(42)}

HttpSubscribe == {Undef, JBool(TRUE), JBool(FALSE)}

Job(j) == http.jobs[j]

\* the loop tests: time may be left only below the cap
PingTimeLeft(j, expired) == expired \/ Job(j).attemptsPing < MaxHttpLoop

OpenTimeLeft(j, expired) == expired \/ Job(j).attemptsOpen <= MaxHttpLoop

\* a playAsync call arrives
HttpPlayAsync(url, subscribe) ==
    /\ http.n + 1 \in HttpJobs
    /\ http' = httpPlayAsync(http, http.n + 1, [url |-> url, subscribe |-> subscribe])
    /\ UNCHANGED <<cli, sess>>

\* activityManager.create called back (or threw)
HttpCreated(j, created) ==
    /\ Job(j).pc = "create"
    /\ http' = afterCreate(http, j, created)
    /\ UNCHANGED <<cli, sess>>

\* the Player.Open of step 1 is answered, fails or times out
HttpOpen1Settled(j, isOk, expiredPing, expiredOpen) ==
    /\ Job(j).pc = "open1"
    /\ PingTimeLeft(j, expiredPing)
    /\ OpenTimeLeft(j, expiredOpen)
    /\ http' = afterOpen1(http, j, isOk, expiredPing, expiredOpen)
    /\ UNCHANGED <<cli, sess>>

\* a ping is answered, fails or times out
HttpPingSettled(j, pong, expiredOpen) ==
    /\ Job(j).pc = "ping"
    /\ OpenTimeLeft(j, expiredOpen)
    /\ http' = afterPing(http, j, pong, expiredOpen)
    /\ UNCHANGED <<cli, sess>>

\* the sleep of waitKodiReady is over
HttpPingSleepDone(j, expiredPing, expiredOpen) ==
    /\ Job(j).pc = "pingSleep"
    /\ PingTimeLeft(j, expiredPing)
    /\ OpenTimeLeft(j, expiredOpen)
    /\ http' = waitKodiReady(http, j, expiredPing, expiredOpen)
    /\ UNCHANGED <<cli, sess>>

\* the sleep of step 3 is over
HttpOpenSleepDone(j) ==
    /\ Job(j).pc = "openSleep"
    /\ http' = afterOpenSleep(http, j)
    /\ UNCHANGED <<cli, sess>>

\* a Player.Open of step 3 is answered, fails or times out
HttpOpenSettled(j, isOk, expired) ==
    /\ Job(j).pc = "open"
    /\ OpenTimeLeft(j, expired)
    /\ http' = afterOpen(http, j, isOk, expired)
    /\ UNCHANGED <<cli, sess>>

\* activityManager.complete called back
HttpCompleted(j) ==
    /\ Job(j).pc = "complete"
    /\ http' = clearIfCurrent(http, j)
    /\ UNCHANGED <<cli, sess>>

\* the events job j waits for
HttpJobNext(j) ==
    \/ \E created \in BOOLEAN : HttpCreated(j, created)
    \/ \E isOk, e1, e2 \in BOOLEAN : HttpOpen1Settled(j, isOk, e1, e2)
    \/ \E pong, e2 \in BOOLEAN : HttpPingSettled(j, pong, e2)
    \/ \E e1, e2 \in BOOLEAN : HttpPingSleepDone(j, e1, e2)
    \/ HttpOpenSleepDone(j)
    \/ \E isOk, e \in BOOLEAN : HttpOpenSettled(j, isOk, e)
    \/ HttpCompleted(j)

NextHttp ==
    \/ \E url \in HttpUrls, subscribe \in HttpSubscribe : HttpPlayAsync(url, subscribe)
    \/ \E j \in HttpJobs : HttpJobNext(j)

SpecHttp == Init /\ [][NextHttp]_vars

\* every HTTP request settles (postJson arms a timeout), every sleep ends and
\* the activity manager calls back
SpecHttpFair == SpecHttp /\ \A j \in HttpJobs : WF_vars(HttpJobNext(j))

(***************************************************************************)
(* SpecWatch: one KodiWsClient with its heartbeat and watchdog intervals   *)
(* and a clock.  The client record gets the fields                         *)
(*   now             Date.now(), in ms                                     *)
(*   lastActivityTs, pingTimeoutMs   as in the class                       *)
(*   hbDue, wdDue    when the armed intervals fire next                    *)
(*   lastFire        history: the last interval callback that ran          *)
(* Time advances in steps of 500 ms, and only when no armed interval is    *)
(* due.  sock = "terminated": ws.terminate() destroyed the socket and its  *)
(* close event is still to come.                                           *)
(***************************************************************************)
MaxTime == 5500     \* the clock stops here

PingTimeouts == {1000, 1500}

NoFire == [timer |-> "none", silentMs |-> 0, ws |-> FALSE, sock |-> "none",
           terminated |-> FALSE]

InitWatch ==
    /\ cli = [now |-> 0, lastActivityTs |-> 0, pingTimeoutMs |-> 1000,
              hbDue |-> 0, wdDue |-> 0, lastFire |-> NoFire] @@ NewClient
    /\ sess = [s \in Sessions |-> NewSession]
    /\ http = NewHttp

\* new KodiWsClient({pingTimeoutMs}), connect() and its open event:
\* lastActivityTs = Date.now(), _startPing()
WatchConnect(pingTimeoutMs) ==
    /\ cli.sock = "none"
    /\ cli' = [connectOpen(connectStart(cli)) EXCEPT
                 !.pingTimeoutMs = pingTimeoutMs,
                 !.lastActivityTs = cli.now,
                 !.hbDue = cli.now + 5000,
                 !.wdDue = cli.now + 1000]
    /\ UNCHANGED <<sess, http>>

\* ws.terminate()
terminate(c) ==
    IF c.sock \in {"open", "closing"} THEN [c EXCEPT !.sock = "terminated"] ELSE c

\* the pingWatchdog callback
watchdogMutAtThreshold(c) ==
    LET silentMs == c.now - c.lastActivityTs
        c1 == IF silentMs >= c.pingTimeoutMs THEN terminate(c) ELSE c
    IN  [c1 EXCEPT !.lastFire = [timer |-> "watchdog", silentMs |-> silentMs,
                                 ws |-> c.ws, sock |-> c.sock,
                                 terminated |-> silentMs >= c.pingTimeoutMs]]

watchdog(c) ==
    LET silentMs == c.now - c.lastActivityTs
        c1 == IF silentMs > c.pingTimeoutMs THEN terminate(c) ELSE c
    IN  [c1 EXCEPT !.lastFire = [timer |-> "watchdog", silentMs |-> silentMs,
                                 ws |-> c.ws, sock |-> c.sock,
                                 terminated |-> silentMs > c.pingTimeoutMs]]

\* the pingInterval callback: ws.ping() if this.ws is set
heartbeat(c) ==
    [c EXCEPT !.lastFire = [timer |-> "heartbeat",
                            silentMs |-> c.now - c.lastActivityTs,
                            ws |-> c.ws, sock |-> c.sock, terminated |-> FALSE]]

\* the 1000 ms interval fires
WatchdogFire ==
    /\ cli.pingWatchdog
    /\ cli.wdDue <= cli.now
    /\ cli' = [watchdog(cli) EXCEPT !.wdDue = cli.now + 1000]
    /\ UNCHANGED <<sess, http>>

\* the 5000 ms interval fires
HeartbeatFire ==
    /\ cli.pingInterval
    /\ cli.hbDue <= cli.now
    /\ cli' = [heartbeat(cli) EXCEPT !.hbDue = cli.now + 5000]
    /\ UNCHANGED <<sess, http>>

\* a message or a pong arrives: lastActivityTs = Date.now()
WatchInbound ==
    /\ cli.sock \in {"open", "closing"}
    /\ cli.lastActivityTs # cli.now
    /\ cli' = [cli EXCEPT !.lastActivityTs = cli.now]
    /\ UNCHANGED <<sess, http>>

\* the socket's close event
WatchWsClose ==
    /\ cli.sock \in {"open", "closing", "terminated"}
    /\ cli' = onWsClose(cli)
    /\ UNCHANGED <<sess, http>>

\* the owner calls close()
WatchLocalClose ==
    /\ cli.sock # "none"
    /\ cli' = close(cli)
    /\ UNCHANGED <<sess, http>>

\* 500 ms pass; an interval that is due fires first
WatchAdvance ==
    /\ cli.now < MaxTime
    /\ ~(cli.pingWatchdog /\ cli.wdDue <= cli.now)
    /\ ~(cli.pingInterval /\ cli.hbDue <= cli.now)
    /\ cli' = [cli EXCEPT !.now = @ + 500]
    /\ UNCHANGED <<sess, http>>

NextWatch ==
    \/ \E pt \in PingTimeouts : WatchConnect(pt)
    \/ WatchdogFire
    \/ HeartbeatFire
    \/ WatchInbound
    \/ WatchWsClose
    \/ WatchLocalClose
    \/ WatchAdvance

SpecWatch == InitWatch /\ [][NextWatch]_vars

RpcIssued(id) == id < cli.nextId

RpcSettled(id) == RpcIssued(id) /\ Len(cli.calls[id]) >= 1

\* C1: every request sent on a connected transport is settled exactly once
\* (one resolve or one reject call, never a second), its entry is gone from the
\* pending map once settled, and it is settled eventually.
C1_SettledOnceSafe ==
    \A id \in RpcIds :
        RpcIssued(id) =>
            /\ Len(cli.calls[id]) <= 1
            /\ (Len(cli.calls[id]) = 1 => id \notin DOMAIN cli.pending)
            /\ (Len(cli.calls[id]) = 0 => id \in DOMAIN cli.pending /\ id \in cli.timers)

C1_SettledExactlyOnce ==
    /\ []C1_SettledOnceSafe
    /\ \A id \in RpcIds : RpcIssued(id) ~> RpcSettled(id)

\* C1 witness: requests settled by a response, by a rejection, and one still pending
\* after a local close()
C1_Witness ==
    /\ cli.nextId = 4
    /\ cli.calls[1] = <<"resolve">>
    /\ cli.calls[2] = <<"reject">>
    /\ ~cli.ws
    /\ 3 \in DOMAIN cli.pending

(***************************************************************************)
(* Properties.                                                             *)
(***************************************************************************)
A == sess["A"]

IsRpc(e) == e.k = "rpc"

\* the requests a session sent, in order: the j-th carries id j
RpcSeq(st) == SelectSeq(st.did, IsRpc)

RpcIdx(st, method) ==
    {j \in 1..Len(RpcSeq(st)) : RpcSeq(st)[j].method = method}

PropIdx(st, by) ==
    {j \in RpcIdx(st, "Player.GetProperties") : RpcSeq(st)[j].by = by}

\* the places of the events of the given types in out
EventIdx(st, types) ==
    {j \in 1..Len(st.out) : st.out[j].returnValue /\ st.out[j].type \in types}

ErrorIdx(st, code) ==
    {j \in EventIdx(st, {"error"}) : st.out[j].code = code}

ConnectIdx(st) == {j \in 1..Len(st.did) : st.did[j].k = "connect"}

\* C2: a session emits at most one terminal event (error or stopped), and its
\* terminal flag, once set, is never reset.
C2_TerminalCount == Cardinality(EventIdx(A, {"error", "stopped"})) <= 1

C2_OneTerminalEvent ==
    /\ []C2_TerminalCount
    /\ [][sess["A"].endedOrStopped => sess'["A"].endedOrStopped]_vars

\* C2 witness: the session failed with KODI_TRACK_FAILED, emitted the error, and
\* the socket's close event came afterwards (onClose found the flag set)
C2_Witness ==
    /\ A.failPc = "done"
    /\ A.failCode = "KODI_TRACK_FAILED"
    /\ A.kodi.sock = "closed"
    /\ Cardinality(EventIdx(A, {"error", "stopped"})) = 1

\* C3: at most one session is active (holds a connected client or an armed poll
\* timer) in every reachable state.
C3_SingleActive == Cardinality({s \in Sessions : Active(sess[s])}) <= 1

\* C4: a session that was active when a later call arrived has its poll timer
\* cleared and its transport closed before the later call connects, and sends no
\* response after the later call's arrival.
C4_Preemption ==
    \A a, b \in Sessions :
        a \in DOMAIN sess[b].seen =>
            /\ Len(sess[a].out) = sess[b].seen[a]
            /\ ConnectIdx(sess[b]) # {} => ~Active(sess[a])

\* C5: KODI_TRACK_FAILED is raised only by a run of 3 consecutive failed progress
\* reads; one or two failed reads emit nothing and polling goes on.
FailedPolls(st) == {j \in PropIdx(st, "poll") : st.kodi.calls[j] = <<"reject">>}

C5_PollTolerance ==
    A.failCode = "KODI_TRACK_FAILED" => Cardinality(FailedPolls(A)) >= 3

\* C6: with a requested position >= 0 the session sends exactly one Player.Seek,
\* carrying the discovered player id and that position, emits playing with that
\* position once the seek succeeded, and neither queries progress nor emits
\* progress before playing.
C6_SeekThenPlaying ==
    LET pos == positionOf(A.payload)
        seeks == RpcIdx(A, "Player.Seek")
        plays == EventIdx(A, {"playing"})
    IN  /\ Cardinality(seeks) <= 1
        /\ Cardinality(plays) <= 1
        /\ \A j \in seeks :
              /\ pos >= 0
              /\ A.playerId # Null
              /\ RpcSeq(A)[j].playerid = A.playerId
              /\ RpcSeq(A)[j].value = pos
              /\ (A.kodi.calls[j] = <<"resolve">> => plays # {})
        /\ \A j \in plays :
              /\ A.out[j].position = Max(0, pos)
              /\ pos >= 0 => \E q \in seeks : A.kodi.calls[q] = <<"resolve">>
              /\ \A q \in EventIdx(A, {"progress"}) : j < q
        /\ plays = {} =>
              /\ PropIdx(A, "poll") = {}
              /\ EventIdx(A, {"progress"}) = {}

\* C6 witness: position 120, discovery answered empty 5 times and then with a
\* player, the seek was sent and answered, playing{position: 120} was emitted
\* and a progress query followed
C6_Witness ==
    /\ positionOf(A.payload) = 120
    /\ Cardinality(RpcIdx(A, "Player.GetActivePlayers")) = 6
    /\ \E j \in RpcIdx(A, "Player.Seek") :
          RpcSeq(A)[j].value = 120 /\ RpcSeq(A)[j].playerid = JNum(0)
    /\ \E j \in EventIdx(A, {"playing"}) : A.out[j].position = 120
    /\ PropIdx(A, "poll") # {}

\* C7: a Player.OnStop handled while the poll timer is armed clears the timer and
\* sends one final Player.GetProperties; no progress query is sent after the
\* final read; the session emits one stopped event, whose end is the boolean
\* value of the notification's data.end, and it does emit it once the final read
\* settled and the focus launch returned.
C7_StopState ==
    LET finals == PropIdx(A, "final")
        stops == EventIdx(A, {"stopped"})
    IN  /\ Cardinality(finals) <= 1
        /\ Cardinality(stops) <= 1
        /\ \A f \in finals : \A q \in PropIdx(A, "poll") : q < f
        /\ (A.stopPc = "done") = (stops # {})
        /\ \A j \in stops : A.out[j].end = Truthy(A.stopData)

C7_StopStep ==
    (sess["A"].stopPc = "none" /\ sess'["A"].stopPc # "none" /\ sess["A"].pollTimer) =>
        /\ ~sess'["A"].pollTimer
        /\ sess'["A"].stopPc = "final"
        /\ Cardinality(PropIdx(sess'["A"], "final")) = 1

C7_StopWhilePolling ==
    /\ []C7_StopState
    /\ [][C7_StopStep]_vars
    /\ (sess["A"].stopPc # "none") ~> (sess["A"].stopPc = "done")

\* C7 witness: polling had started, Player.OnStop with data.end = true came while
\* a progress query was in flight, the final read was made and stopped{end: true}
\* emitted
C7_Witness ==
    /\ A.stopPc = "done"
    /\ A.stopData = JBool(TRUE)
    /\ PropIdx(A, "poll") # {}
    /\ PropIdx(A, "final") # {}
    /\ \E j \in EventIdx(A, {"stopped"}) : A.out[j].end = TRUE

\* C8: a session fails with the connect-failed code only after at least
\* floor(T / 4000) connection attempts, T being its timeoutMs.
C8_ConnectRetries ==
    A.failCode = "KODI_WS_CONNECT_FAILED" =>
        Cardinality(ConnectIdx(A)) >= timeoutMsOf(A.payload) \div 4000

\* C9: a call without a subscription gets exactly one response, with returnValue
\* false, and has no other effect: no launch, no connection, no timer.
C9_NotSubscribed ==
    (A.pc # "idle" /\ ~A.sub) =>
        /\ A.out = <<[k |-> "respond", returnValue |-> FALSE]>>
        /\ A.did = <<>>
        /\ A.kodi = NewClient
        /\ ~A.pollTimer
        /\ A.pc = "done" /\ A.failPc = "none" /\ A.stopPc = "none"

\* C9 witness: a call without a subscription was answered
C9_Witness == A.pc = "done" /\ ~A.sub /\ Len(A.out) = 1

\* C10: for a subscribed call whose url is missing or not a string, the player is
\* launched first; if the launch succeeds, launched is emitted before the one
\* error, whose code is BAD_ARGS, and no connection is ever attempted.
C10_ValidateAfterLaunch ==
    (A.pc # "idle" /\ A.sub /\ badUrl(A.payload)) =>
        /\ A.did # <<>> /\ A.did[1] = Launch("kodi")
        /\ ConnectIdx(A) = {}
        /\ A.kodi = NewClient
        /\ A.failCode \in {"", "KODI_LAUNCH_FAILED", "BAD_ARGS"}
        /\ EventIdx(A, {"launched"}) # {} =>
              /\ A.failCode = "BAD_ARGS"
              /\ A.out \in {<<Event("launched")>>,
                            <<Event("launched"), ErrorEvent("BAD_ARGS")>>}
        /\ A.failCode = "BAD_ARGS" => A.out[1] = Event("launched")
        /\ (A.failCode = "BAD_ARGS" /\ A.failPc = "done") =>
              A.out = <<Event("launched"), ErrorEvent("BAD_ARGS")>>

\* C10 witness: url missing, the launch succeeded, launched and then the BAD_ARGS
\* error were emitted
C10_Witness ==
    /\ A.payload.url = Undef
    /\ A.out = <<Event("launched"), ErrorEvent("BAD_ARGS")>>
    /\ A.did = <<Launch("kodi"), Launch("lampa")>>

\* C11: the socket's close event happens at most once per session; when it comes
\* while the terminal flag is not set (after the connection opened: during
\* Player.Open, discovery, seek or polling) the session fails with
\* KODI_WS_CLOSED and emits exactly one error event, with that code; a close
\* event that comes when the flag is already set (after the session's own
\* close()) changes neither the failure code nor the responses, and no
\* KODI_WS_CLOSED error is emitted for it.
C11_CloseStep ==
    LET st == sess["A"]
        st2 == sess'["A"]
    IN  /\ st.kodi.sock = "closed" => st2.kodi.sock = "closed"
        /\ (st.kodi.sock # "closed" /\ st2.kodi.sock = "closed") =>
              /\ st2.out = st.out
              /\ IF st.endedOrStopped
                 THEN st2.failCode = st.failCode /\ st2.failPc = st.failPc
                 ELSE /\ st2.failCode = "KODI_WS_CLOSED"
                      /\ st2.failPc = "focus"
                      /\ st2.endedOrStopped
                      /\ st.pc \in {"open", "sleep200", "active", "sleepRetry",
                                   "seek", "done"}

C11_CloseState ==
    /\ A.failCode = "KODI_WS_CLOSED" =>
          /\ A.kodi.sock = "closed"
          /\ EventIdx(A, {"stopped"}) = {}
          /\ EventIdx(A, {"error"}) = ErrorIdx(A, "KODI_WS_CLOSED")
          /\ Cardinality(ErrorIdx(A, "KODI_WS_CLOSED")) =
                (IF A.failPc = "done" THEN 1 ELSE 0)
    /\ A.failCode # "KODI_WS_CLOSED" => ErrorIdx(A, "KODI_WS_CLOSED") = {}

C11_CloseWhileLive ==
    /\ []C11_CloseState
    /\ [][C11_CloseStep]_vars
    /\ (sess["A"].failCode = "KODI_WS_CLOSED") ~>
          (ErrorIdx(sess["A"], "KODI_WS_CLOSED") # {})

\* C11 witness: the socket closed while a progress query was in flight; the
\* session emitted the one KODI_WS_CLOSED error after playing
C11_Witness ==
    /\ A.failCode = "KODI_WS_CLOSED"
    /\ A.failPc = "done"
    /\ PropIdx(A, "poll") # {}
    /\ \E j \in PropIdx(A, "poll") : A.kodi.calls[j] = <<"reject">>
    /\ EventIdx(A, {"playing"}) # {}
    /\ Cardinality(EventIdx(A, {"error"})) = 1

\* C12: after a successful Player.Open the session queries
\* Player.GetActivePlayers at most 14 times, and gives up (KODI_PLAY_FAILED, no
\* playing event) only when all 14 queries were answered without a player.
C12_DiscoveryCap ==
    LET asks == RpcIdx(A, "Player.GetActivePlayers")
        exhausted == /\ A.failCode = "KODI_PLAY_FAILED"
                     /\ A.playerId = Null
                     /\ asks # {}
                     /\ \A j \in asks : A.kodi.calls[j] = <<"resolve">>
    IN  /\ Cardinality(asks) <= 14
        /\ exhausted => /\ Cardinality(asks) = 14
                        /\ EventIdx(A, {"playing"}) = {}

\* C13: in the HTTP variant a call with a valid url gets STARTED as its first
\* response; with subscribe true it then gets exactly one FINAL, whose result is
\* OK, TIMEOUT, CANCELLED or ERROR, sent when the handler leaves its try block,
\* and nothing after it; without subscribe it gets STARTED only.  The FINAL does
\* come (timeouts taken finite).
HttpFinals == {Final(TRUE, "OK", u) : u \in HttpUrls} \cup
              {Final(FALSE, r, u) : r \in {"TIMEOUT", "CANCELLED", "ERROR"}, u \in HttpUrls}

C13_Responses ==
    \A j \in HttpJobs :
        LET job == Job(j) IN
        job.pc \notin {"idle", "refused"} =>
            /\ Len(job.out) >= 1
            /\ job.out[1] = Started(job.url)
            /\ ~job.subscribed => Len(job.out) = 1
            /\ job.subscribed =>
                  /\ Len(job.out) = (IF job.pc \in {"complete", "done"} THEN 2 ELSE 1)
                  /\ Len(job.out) = 2 =>
                        /\ job.out[2] \in HttpFinals
                        /\ job.out[2].url = job.url

C13_StartedThenFinal ==
    /\ []C13_Responses
    /\ \A j \in HttpJobs :
          (http.jobs[j].pc = "create" /\ http.jobs[j].subscribed)
              ~> (Len(http.jobs[j].out) = 2 /\ http.jobs[j].pc = "done")

\* C13 witness: the first call (subscribed) was cancelled by the second and got
\* STARTED and FINAL CANCELLED; the second got STARTED and FINAL OK; both returned
C13_Witness ==
    /\ Job(1).out = <<Started(Job(1).url), Final(FALSE, "CANCELLED", Job(1).url)>>
    /\ Job(2).out = <<Started(Job(2).url), Final(TRUE, "OK", Job(2).url)>>
    /\ Job(1).pc = "done" /\ Job(2).pc = "done"
    /\ Job(1).attemptsOpen >= 1

\* C14: once the terminal flag of a session is set, no progress, playing,
\* avstart, paused, resumed or seek event is emitted for it: what a remote call
\* in flight at that moment returns is discarded.
NonTerminalEvents == {"progress", "playing", "avstart", "paused", "resumed", "seek"}

C14_Step ==
    sess["A"].endedOrStopped =>
        EventIdx(sess'["A"], NonTerminalEvents) = EventIdx(sess["A"], NonTerminalEvents)

C14_NothingAfterTerminal == [][C14_Step]_vars

\* C15: once a session has emitted its terminal event, its poll timer is not
\* armed, the heartbeat and watchdog timers of its client are stopped and the
\* socket is not connected.
C15_ReleasedAfterTerminal ==
    EventIdx(A, {"error", "stopped"}) # {} =>
        /\ ~A.pollTimer
        /\ ~A.kodi.pingInterval
        /\ ~A.kodi.pingWatchdog
        /\ A.kodi.sock \notin {"connecting", "open"}

\* C16: close() stops the heartbeat and watchdog timers and releases the
\* connection; every request pending when close() is called is failed with the
\* closed error (at the latest by the close event it causes), never resolved
\* and never left to its deadline; close() on a client that was closed already,
\* or never connected, changes nothing.
C16_Step ==
    /\ (cli.ws /\ ~cli'.ws) =>
          /\ ~cli'.pingInterval /\ ~cli'.pingWatchdog
          /\ cli'.sock \in {"closing", "closed"}
    /\ \A id \in DOMAIN cli.pending :
          (~cli.ws /\ id \notin DOMAIN cli'.pending) =>
              /\ cli.sock # "closed" /\ cli'.sock = "closed"
              /\ cli'.calls[id] = <<"reject">>

C16_Idempotent ==
    /\ close(close(cli)) = close(cli)
    /\ ~cli.ws => close(cli) = cli

C16_CloseFailsPending == []C16_Idempotent /\ [][C16_Step]_vars

\* C17: every avstart, paused, resumed, seek or stopped event of a session comes
\* after its playing event; a session without a playing event has none of them.
C17_AfterPlaying ==
    \A j \in EventIdx(A, {"avstart", "paused", "resumed", "seek", "stopped"}) :
        \E q \in EventIdx(A, {"playing"}) : q < j

\* C18: the watchdog, at each of its checks, terminates the connection exactly
\* when lastActivityTs is more than pingTimeoutMs old; it checks every 1000 ms,
\* so a connected client is never silent for more than pingTimeoutMs + 1000 ms;
\* neither interval runs after the socket's close event or after close().
C18_Watchdog ==
    LET f == cli.lastFire IN
    /\ f.timer = "watchdog" => (f.terminated <=> f.silentMs > cli.pingTimeoutMs)
    /\ f.timer # "none" => f.ws /\ f.sock \in {"open", "terminated"}
    /\ (cli.ws /\ cli.sock = "open") =>
          cli.now - cli.lastActivityTs <= cli.pingTimeoutMs + 1000
    /\ (~cli.ws \/ cli.sock = "closed") => ~cli.pingInterval /\ ~cli.pingWatchdog

\* C18 witness: with pingTimeoutMs 1000 the watchdog terminated the connection
\* after 1500 ms of silence, 2000 ms or more after the connection opened
C18_Witness ==
    /\ cli.lastFire.timer = "watchdog"
    /\ cli.lastFire.terminated
    /\ cli.lastFire.silentMs = 1500
    /\ cli.pingTimeoutMs = 1000
    /\ cli.now >= 2000
    /\ cli.sock = "terminated"

\* C19: a job that finishes sets currentJob to null only if currentJob still
\* refers to it; while the job installed last has not finished, currentJob
\* refers to it, whatever older jobs do.
HttpInstalled == {j \in HttpJobs : Job(j).pc \notin {"idle", "refused"}}

C19_Slot ==
    /\ http.currentJob # 0 => http.currentJob \in HttpInstalled
    /\ \A j \in HttpInstalled :
          (\A k \in HttpInstalled : k <= j) =>
              /\ http.currentJob \in {0, j}
              /\ Job(j).pc # "done" => http.currentJob = j

C19_Step ==
    \A j \in HttpJobs :
        (http.jobs[j].pc \notin {"idle", "done"} /\ http'.jobs[j].pc = "done") =>
            http'.currentJob = IF http.currentJob = j THEN 0 ELSE http.currentJob

C19_ClearIfCurrent == []C19_Slot /\ [][C19_Step]_vars

\* C19 witness: job 1 was superseded by job 2 and finished while job 2 is still
\* at work; currentJob refers to job 2
C19_Witness ==
    /\ Job(1).pc = "done"
    /\ Job(1).cancelled
    /\ Job(1).completed = 1
    /\ Job(2).pc \in {"open1", "ping", "pingSleep", "openSleep", "open"}
    /\ http.currentJob = 2

\* C20: a job that a newer call has marked cancelled sends no further
\* Player.Open and no further ping, so the last Player.Open that was sent
\* carries the url of the newest call that installed a job.
C20_LatestWins ==
    /\ \A j \in HttpJobs :
          \A q \in 1..Len(Job(j).sent) : ~Job(j).sent[q].cancelled
    /\ \A j \in HttpInstalled :
          ((\A k \in HttpInstalled : k <= j) /\ Job(j).sent # <<>>) =>
              http.lastOpen = Job(j).url

\* C21: a session performs the launch that returns focus to the caller app at
\* most once, never before its terminal flag is set, and exactly once before it
\* emits its error or stopped event; the event is emitted when the launch has
\* returned, whether it succeeded or failed, and it does return.
FocusIdx(st) == {j \in 1..Len(st.did) : st.did[j] = Launch("lampa")}

C21_FocusState ==
    LET terminal == EventIdx(A, {"error", "stopped"}) IN
    /\ Cardinality(FocusIdx(A)) <= 1
    /\ ~A.endedOrStopped => FocusIdx(A) = {}
    /\ terminal # {} => Cardinality(FocusIdx(A)) = 1
    /\ (A.focus # "none") = (terminal # {})
    /\ (A.focus = "none" /\ FocusIdx(A) # {}) =>
          (A.failPc = "focus" /\ A.stopPc = "none") \/
          (A.stopPc = "focus" /\ A.failPc = "none")

C21_FocusOnce ==
    /\ []C21_FocusState
    /\ (FocusIdx(sess["A"]) # {}) ~>
          (EventIdx(sess["A"], {"error", "stopped"}) # {})

\* C21 witness: the kodi launch failed, the focus launch failed too, and the
\* KODI_LAUNCH_FAILED error was emitted all the same
C21_Witness ==
    /\ A.failCode = "KODI_LAUNCH_FAILED"
    /\ A.focus = "failed"
    /\ A.did = <<Launch("kodi"), Launch("lampa")>>
    /\ A.out = <<ErrorEvent("KODI_LAUNCH_FAILED")>>

\* a second witness of C21's case: a stopped session whose focus launch failed
C21_WitnessStopped ==
    /\ A.stopPc = "done"
    /\ A.focus = "failed"
    /\ Cardinality(FocusIdx(A)) = 1
    /\ EventIdx(A, {"stopped"}) # {}

\* C22: in the HTTP variant a call that passes the url check calls
\* activityManager.create once; the activity it got is completed exactly once,
\* when the handler leaves its try block, on every path; a cancelled job goes on
\* for at most the rest of its current loop iteration (one more sleep or one
\* more Player.Open) before it completes the activity, and it does complete it.
C22_KeepAliveState ==
    \A j \in HttpJobs :
        LET job == Job(j) IN
        /\ job.created = (IF job.pc \in {"idle", "refused"} THEN 0 ELSE 1)
        /\ job.completed =
              (IF job.keepAlive /\ job.pc \in {"complete", "done"} THEN 1 ELSE 0)
        /\ job.pc \in {"open1", "ping", "pingSleep", "openSleep", "open", "complete"}
              => job.keepAlive
        /\ Cardinality({q \in 1..Len(job.sent) : job.sent[q].cancelled}) <= 1

C22_CancelledStep ==
    \A j \in HttpJobs :
        (http.jobs[j].cancelled /\ http'.jobs[j].pc # http.jobs[j].pc) =>
            <<http.jobs[j].pc, http'.jobs[j].pc>> \in
                {<<"create", "complete">>, <<"create", "done">>,
                 <<"open1", "complete">>, <<"ping", "complete">>,
                 <<"ping", "pingSleep">>, <<"pingSleep", "complete">>,
                 <<"openSleep", "open">>, <<"open", "complete">>,
                 <<"complete", "done">>}

C22_KeepAlive ==
    /\ []C22_KeepAliveState
    /\ [][C22_CancelledStep]_vars
    /\ \A j \in HttpJobs :
          (http.jobs[j].created = 1) ~>
              (http.jobs[j].pc = "done" /\
               http.jobs[j].completed = (IF http.jobs[j].keepAlive THEN 1 ELSE 0))

\* C22 witness: job 1 was cancelled during the sleep of step 3, sent one more
\* Player.Open, then completed its activity and returned, while job 2 is at work
C22_Witness ==
    /\ Job(1).pc = "done"
    /\ Job(1).cancelled
    /\ Job(1).created = 1 /\ Job(1).completed = 1
    /\ Len(Job(1).sent) >= 2
    /\ Job(1).sent[Len(Job(1).sent)].cancelled
    /\ Job(2).pc \notin {"idle", "refused", "done"}

====
